---- MODULE Spec2Model ----
(***************************************************************************)
(* State-machine model of xl/player.py (Exaile): the PlayQueue, the        *)
(* playbin engines (GSTPlayer, GaplessPlayer, both on BaseGSTPlayer) and   *)
(* the multi-stream UnifiedPlayer with its AudioStream objects.            *)
(*                                                                         *)
(* Every handler is one action.  A handler is written as an operator on a  *)
(* record w holding all the mutable fields, so that a handler that calls   *)
(* another one (queue.next -> player.play -> link_stream -> stop -> ...)   *)
(* is the composition of their operators.  The record also carries what    *)
(* the handler emitted and returned (ev, nx, played, play_ret, ret), so    *)
(* that a property of a handler reads as a property of its result.  The    *)
(* variable last keeps the last call of the interface and its result.      *)
(***************************************************************************)
EXTENDS Integers, Sequences, FiniteSets

\* ------------------------------------------------------------ bounds
MaxQueue == 2        \* longest explicit queue the environment builds
MaxTime == 6         \* largest get_time() (whole seconds) the backend reports
MaxOrphans == 1      \* streams linked to the adder that no slot holds
MaxSources == 1      \* pending _start_crossfade sources not held in timer_id
MaxClock == 4        \* last second of the wall clock, int(time.time())
TrackDuration == 8   \* track.get_duration() of every track, in seconds
MaxSeeks == 2        \* seek calls made on one AudioStream
MaxSubs == 2         \* idle _settle_state_sub sources pending at once

\* ------------------------------------------------------------ values
None == "None"
NoCall == "NoCall"                 \* "this handler made no such call"
NoStopTrack == "-1"                \* the stop_track sentinel, player.py:47
NoStamp == -1                      \* playtime_stamp = None
GoodTracks == {"a", "b"}           \* local tracks whose file exists
MissingTracks == {"x"}             \* local tracks whose file does not exist
Tracks == GoodTracks \cup MissingTracks
PlaylistTracks == <<"a", "b">>     \* the content of the active playlist
QueueTracks == {"b", "x"}          \* the tracks the environment enqueues
MarkedTracks == {"a"}              \* the tracks it marks as stop track
Slots == {0, 1}

VARIABLES
    engine,             \* "gst" | "gapless" | "unified" (get_player)
    user_fade_enabled,  \* setting player/user_fade_enabled
    crossfading,        \* setting player/crossfading
    \* PlayQueue
    ordered_tracks,     \* the explicit queue
    stop_track,         \* the stop-track marker, NoStopTrack when unset
    current_playing,    \* PlayQueue.current_playing
    current_pos,        \* PlayQueue.current_pos
    current_playlist,   \* None | "pl"
    pl_pos,             \* the active playlist's current_pos
    pl_playing,         \* the active playlist's current_playing
    \* engines
    pipe,               \* state of playbin / of UnifiedPlayer.pipe
    current,            \* BaseGSTPlayer.current
    eos,                \* an EOS message is on the bus (playbin engines)
    atf,                \* idle _on_finish queued by on_finish (gapless)
    streams,            \* UnifiedPlayer.streams: slot -> AudioStream | NoStream
    current_stream,     \* UnifiedPlayer.current_stream
    orphans,            \* streams linked to the adder that no slot holds
    timer_id,           \* source held in self.timer_id: "none"|"xfade"|"stop"
    xfade_sources,      \* pending _start_crossfade sources held nowhere
    fades,              \* pending _fade_stream timers, in firing order
    idle_pipe,          \* idle _set_state(pipe, PLAYING) queued
    \* playtime accounting (playbin engines)
    now,                \* the wall clock, int(time.time()), from an origin
    playtime_stamp,     \* BaseGSTPlayer.playtime_stamp, NoStamp when None
    playtime,           \* track -> track['playtime']
    playing_time,       \* track -> whole seconds the engine was Playing it
    \* one AudioStream, the main loop and a thread that seeks on the stream
    settle_flag,        \* AudioStream._settle_flag
    seek_event,         \* AudioStream._seek_event is set
    gst_state,          \* what _get_gst_state() returns for the stream
    set_state_idle,     \* idle stream.set_state(PLAYING) queued by play
    settle_subs,        \* idle _settle_state_sub sources pending
    main_pc,            \* where the main loop is: "loop"|"set_state"|"emit"
    seek_callback,      \* _seek_delayed is registered for stream_settled
    seek_pc,            \* where the seeking thread is inside seek()
    seek_value,         \* the position it seeks to
    seek_calls,         \* seek calls made so far
    seeks,              \* the seek events sent to the stream, in order
    \* UnifiedPlayer.play on the main loop, taken in two steps
    play_pc,            \* NoPlay, or the locals of a play() that is under way
    \* observation
    marker_stops,       \* stop_track events since the marker was last set
    last                \* the last interface call, its time and its result

vars == <<engine, user_fade_enabled, crossfading, ordered_tracks, stop_track,
          current_playing, current_pos, current_playlist, pl_pos, pl_playing,
          pipe, current, eos, atf, streams, current_stream, orphans,
          timer_id, xfade_sources, fades, idle_pipe, now, playtime_stamp,
          playtime, playing_time, settle_flag, seek_event, gst_state,
          set_state_idle, settle_subs, main_pc, seek_callback, seek_pc,
          seek_value, seek_calls, seeks, play_pc, marker_stops, last>>

\* The queue and the engines; the stream that is sought on.
playervars == <<engine, user_fade_enabled, crossfading, ordered_tracks,
                stop_track, current_playing, current_pos, current_playlist,
                pl_pos, pl_playing, pipe, current, eos, atf, streams,
                current_stream, orphans, timer_id, xfade_sources, fades,
                idle_pipe, now, playtime_stamp, playtime, playing_time,
                play_pc, marker_stops, last>>

seekvars == <<settle_flag, seek_event, gst_state, set_state_idle, settle_subs,
              main_pc, seek_callback, seek_pc, seek_value, seek_calls, seeks>>

\* The mutable fields as one record, the argument of every handler.
W ==
    [ordered_tracks |-> ordered_tracks, stop_track |-> stop_track,
     current_playing |-> current_playing, current_pos |-> current_pos,
     current_playlist |-> current_playlist, pl_pos |-> pl_pos,
     pl_playing |-> pl_playing, pipe |-> pipe, current |-> current,
     eos |-> eos, atf |-> atf, streams |-> streams,
     current_stream |-> current_stream, orphans |-> orphans,
     timer_id |-> timer_id, xfade_sources |-> xfade_sources, fades |-> fades,
     idle_pipe |-> idle_pipe, now |-> now,
     playtime_stamp |-> playtime_stamp, playtime |-> playtime,
     marker_stops |-> marker_stops, deferred |-> <<>>,
     sched |-> NoCall, delay |-> 0, progress |-> NoCall,
     volume |-> NoCall, calls |-> <<>>,
     ev |-> <<>>, nx |-> NoCall, played |-> NoCall, play_ret |-> NoCall,
     play_user |-> NoCall, ret |-> None, raised |-> FALSE]

Emit(w, name, arg) == [w EXCEPT !.ev = Append(@, [name |-> name, arg |-> arg])]

EventNames(evs) == {evs[i].name : i \in 1..Len(evs)}

CountEvents(evs, name) == Cardinality({i \in 1..Len(evs) : evs[i].name = name})

\* ------------------------------------------------------------ volume
(* AudioStream volume is a Python float (a double).  _fade_stream adds     *)
(* direction/100.0 to it, so a volume is h * c + e * 2^-59, where          *)
(* c = 5764607523034235 * 2^-59 is the double 0.01, h counts hundredths    *)
(* and e is the rounding error accumulated so far, in units of 2^-59.      *)
(* Every sum is rounded to 53 significant bits, to nearest, ties to even.  *)
CentiLow8 == 123     \* 5764607523034235 % 256
Excess25 == 3        \* 25 * 5764607523034235 - 2^57
Excess50 == 6        \* 50 * 5764607523034235 - 2^58
Excess100 == 12      \* 100 * 5764607523034235 - 2^59

\* The unit in the last place, in units of 2^-59, of the double h * c + e.
Ulp(h, e) ==
    IF h <= 1 THEN 1
    ELSE IF h <= 3 THEN 2
    ELSE IF h <= 6 THEN 4
    ELSE IF h <= 12 THEN 8
    ELSE IF h <= 24 THEN 16
    ELSE IF h = 25 THEN (IF e >= -Excess25 THEN 32 ELSE 16)
    ELSE IF h <= 49 THEN 32
    ELSE IF h = 50 THEN (IF e >= -Excess50 THEN 64 ELSE 32)
    ELSE IF h <= 99 THEN 64
    ELSE IF h = 100 THEN (IF e >= -Excess100 THEN 128 ELSE 64)
    ELSE 128

\* The error term after rounding the exact sum h * c + e to a double.
RoundErr(h, e) ==
    LET u == Ulp(h, e)
        n == h * CentiLow8 + e
        r == n % u
    IN  IF r = 0 THEN e
        ELSE IF 2 * r < u THEN e - r
        ELSE IF 2 * r > u THEN e + (u - r)
        ELSE IF n % (2 * u) = r THEN e - r
        ELSE e + (u - r)

VolZero == [h |-> 0, e |-> 0]               \* 0.0
VolOne == [h |-> 100, e |-> -Excess100]     \* 1.0, the volume element's default

\* current += direction/100.0
VolAdd(v, direction) ==
    [h |-> v.h + direction, e |-> RoundErr(v.h + direction, v.e)]

VolLt001(v) == v.h < 1 \/ (v.h = 1 /\ v.e < 0)              \* v < 0.01
VolLe1(v) == v.h < 100 \/ (v.h = 100 /\ v.e <= -Excess100)  \* v <= 1
VolNegative(v) == v.h < 0 \/ (v.h = 0 /\ v.e < 0)           \* v < 0

\* The volume in whole hundredths (rounded to nearest).
Hundredths(v) == v.h

\* ------------------------------------------------------------ tracks
\* track.is_local() and track.exists(): every track here is local.
TrackExists(t) == t \in GoodTracks

\* ------------------------------------------------------------ playlist
(* playlist.Playlist is not part of this file.  The active playlist is a   *)
(* fixed sequence with a cursor: next() moves the cursor forward and       *)
(* returns the track there, or returns nothing at the end; prev() moves it *)
(* back; get_current() reads the track at the cursor.                      *)
PlaylistAt(pos) ==
    IF pos >= 0 /\ pos < Len(PlaylistTracks) THEN PlaylistTracks[pos + 1] ELSE None

PlaylistNextPos(pos) == IF pos + 1 < Len(PlaylistTracks) THEN pos + 1 ELSE pos

PlaylistNextTrack(pos) ==
    IF pos + 1 < Len(PlaylistTracks) THEN PlaylistAt(pos + 1) ELSE None

PlaylistPrevPos(pos) == IF pos >= 1 THEN pos - 1 ELSE pos

PlaylistPrevTrack(pos) == IF pos >= 1 THEN PlaylistAt(pos - 1) ELSE None

\* Playlist.get_current(queue): the queue's own track at its cursor.
PlaylistGetCurrent(w) ==
    IF w.current_pos >= 0 /\ w.current_pos < Len(w.ordered_tracks)
    THEN w.ordered_tracks[w.current_pos + 1]
    ELSE None

\* ------------------------------------------------------------ BaseGSTPlayer
\* BaseGSTPlayer.update_playtime: credits the whole seconds since the stamp
\* to the current track and clears the stamp.
BUpdatePlaytime(w) ==
    IF w.current # None /\ w.playtime_stamp # NoStamp
    THEN [w EXCEPT !.playtime[w.current] = @ + (w.now - w.playtime_stamp),
                   !.playtime_stamp = NoStamp]
    ELSE w

\* BaseGSTPlayer.reset_playtime_stamp
BResetPlaytimeStamp(w) == [w EXCEPT !.playtime_stamp = w.now]

\* BaseGSTPlayer.stop.  Setting the playbin to NULL flushes its bus.
BStop(w) ==
    IF w.pipe \in {"PLAYING", "PAUSED"}
    THEN LET w1 == BUpdatePlaytime(w)
         IN  Emit([w1 EXCEPT !.pipe = "NULL", !.current = None, !.eos = FALSE,
                             !.ret = "True"],
                  "playback_end", w.current)
    ELSE [w EXCEPT !.ret = "False"]

\* BaseGSTPlayer.play
BPlay(w, track) ==
    LET w1 == [BStop(w) EXCEPT !.played = track, !.play_user = TRUE]
    IN  IF track = None \/ ~TrackExists(track)
        THEN [w1 EXCEPT !.play_ret = "False", !.ret = "False"]
        ELSE Emit(BResetPlaytimeStamp(
                      [w1 EXCEPT !.current = track, !.pipe = "PLAYING",
                                 !.play_ret = "True", !.ret = "True"]),
                  "playback_start", track)

\* BaseGSTPlayer.pause
BPause(w) ==
    IF w.pipe = "PLAYING"
    THEN Emit(BResetPlaytimeStamp(
                  [BUpdatePlaytime(w) EXCEPT !.pipe = "PAUSED", !.ret = "True"]),
              "playback_pause", w.current)
    ELSE [w EXCEPT !.ret = "False"]

\* BaseGSTPlayer.unpause
BUnpause(w) ==
    IF w.pipe = "PAUSED"
    THEN Emit(BResetPlaytimeStamp(
                  [w EXCEPT !.pipe = "PLAYING", !.ret = "True"]),
              "playback_resume", w.current)
    ELSE [w EXCEPT !.ret = "False"]

\* ------------------------------------------------------------ UnifiedPlayer
\* The place of an AudioStream object that does not exist (None in a slot).
NoStream == [live |-> FALSE, linked |-> FALSE, track |-> None, vol |-> [h |-> 0, e |-> 0]]

\* AudioStream(...): no track, the volume element's default volume, not linked.
NewStream == [live |-> TRUE, linked |-> FALSE, track |-> None, vol |-> VolOne]

\* The streams linked to the adder: those the slots hold and those no slot holds.
Attached(strs, orph) ==
    Cardinality({s \in Slots : strs[s].live /\ strs[s].linked}) + orph

\* AudioStream.get_current of the stream in the current slot.  A stream that
\* is in the pipe follows the pipe's state.
UCurrent(w) ==
    LET st == w.streams[w.current_stream]
    IN  IF st.live /\ st.linked /\ w.pipe \in {"PLAYING", "PAUSED"}
        THEN st.track
        ELSE None

DropTimers(seq, s) == SelectSeq(seq, LAMBDA t : t.slot # s)

\* unlink_stream that empties the slot but leaves the stream linked to the adder.
UnlinkLeavesLinked(w, s) ==
    IF ~w.streams[s].live
    THEN w
    ELSE [w EXCEPT !.streams[s] = NoStream, !.fades = DropTimers(@, s),
                   !.orphans = @ + 1]

(* UnifiedPlayer.unlink_stream of the stream in slot s.  None raises        *)
(* AttributeError, which returns True.  The stream leaves the adder, the    *)
(* pipe and its slot.  Its pending fade timers go on ticking on the         *)
(* detached object, where unlink_stream fails in pipe.remove and changes    *)
(* nothing: they are dropped here.                                          *)
UnlinkStream(w, s) ==
    IF ~w.streams[s].live
    THEN w
    ELSE [w EXCEPT !.streams[s] = NoStream, !.fades = DropTimers(@, s),
                   !.deferred = Append(@, [call |-> "set_state_null",
                                           track |-> w.streams[s].track])]

\* The setting player/crossfade_duration (its default), in milliseconds.
CrossfadeDuration == 3000

\* time in _reset_crossfade_timer, in milliseconds, when get_time() is pos.
CrossfadeTime(pos) == TrackDuration * 1000 - (pos * 1000 + CrossfadeDuration)

\* UnifiedPlayer._reset_crossfade_timer.  pos: what get_time() returns.
UResetCrossfadeTimer(w, pos) ==
    LET w1 == [w EXCEPT !.timer_id = "none"]
        time == CrossfadeTime(pos)
    IN  IF w1.pipe # "PLAYING" THEN w1
        ELSE IF ~crossfading THEN w1
        ELSE IF UCurrent(w1) = None THEN [w1 EXCEPT !.raised = TRUE]
        ELSE IF time < CrossfadeDuration
             THEN [w1 EXCEPT !.xfade_sources = @ + 1, !.sched = "idle_add"]
             ELSE [w1 EXCEPT !.timer_id = "xfade", !.sched = "timeout_add",
                             !.delay = time]

\* UnifiedPlayer.stop
UStop(w) ==
    IF w.pipe \in {"PLAYING", "PAUSED"}
    THEN LET cur == UCurrent(w)
             w1 == [w EXCEPT !.pipe = "NULL"]
             w2 == UnlinkStream(w1, 0)
             w3 == UnlinkStream(w2, 1)
             w4 == UResetCrossfadeTimer(w3, 0)
         IN  Emit([w4 EXCEPT !.ret = "True"], "playback_end", cur)
    ELSE [w EXCEPT !.ret = "False"]

\* self.streams[s] = AudioStream(...).  A stream that the slot still held
\* stays linked to the adder with no slot holding it.
SetSlot(w, s) ==
    [w EXCEPT !.orphans = IF w.streams[s].live /\ w.streams[s].linked
                          THEN @ + 1 ELSE @,
              !.fades = DropTimers(@, s),
              !.streams[s] = NewStream]

\* UnifiedPlayer.link_stream
LinkStream(w, s, track) ==
    LET w1 == [w EXCEPT !.streams[s].linked = TRUE]
    IN  IF track = None \/ ~TrackExists(track)       \* AudioStream.set_track
        THEN [UStop(w1) EXCEPT !.ret = "False"]
        ELSE [w1 EXCEPT !.streams[s].track = track, !.ret = "True"]

\* The tail of UnifiedPlayer.play, after link_stream succeeded.
UPlayStart(w, nxt, track, fading) ==
    LET w1 == IF fading THEN [w EXCEPT !.streams[nxt].vol = VolZero] ELSE w
        w2 == [w1 EXCEPT !.pipe = "PLAYING", !.idle_pipe = TRUE]
        old == w2.current_stream
        w3 == IF ~fading THEN w2
              ELSE [w2 EXCEPT
                      !.fades = @ \o <<[slot |-> nxt, dir |-> 1, del |-> FALSE]>>
                          \o (IF w2.streams[old].live
                              THEN <<[slot |-> old, dir |-> -1, del |-> TRUE]>>
                              ELSE <<>>),
                      !.xfade_sources = IF crossfading THEN @ + 1 ELSE @]
    IN  Emit([w3 EXCEPT !.current_stream = nxt, !.play_ret = "True",
                        !.ret = "True"],
             "playback_start", track)

\* The policy play() applies: whether the old stream fades out.
UPlayFading(user) == IF user THEN user_fade_enabled ELSE crossfading

\* UnifiedPlayer.play up to the creation of the new stream (763-788): the
\* slot to fill is chosen and emptied, and without a fade the current stream
\* is unlinked.
UPlayBegin(w, track, user) ==
    LET w0 == [w EXCEPT !.played = track, !.play_user = user]
        nxt == 1 - w0.current_stream
        w1 == UnlinkStream(w0, nxt)
    IN  IF UPlayFading(user) THEN w1 ELSE UnlinkStream(w1, w1.current_stream)

\* UnifiedPlayer.play from the creation of the new stream on (790-818), with
\* the locals next and fading it computed before.
UPlayEnd(w, nxt, track, fading) ==
    LET w3 == LinkStream(SetSlot(w, nxt), nxt, track)
    IN  IF w3.ret = "False"
        THEN [w3 EXCEPT !.play_ret = "False"]
        ELSE UPlayStart(w3, nxt, track, fading)

\* UnifiedPlayer.play
UPlay(w, track, user) ==
    IF track = None
    THEN [w EXCEPT !.played = track, !.play_user = user, !.play_ret = None,
                   !.ret = None]
    ELSE UPlayEnd(UPlayBegin(w, track, user), 1 - w.current_stream, track,
                  UPlayFading(user))

\* UnifiedPlayer.pause
UPause(w) ==
    IF w.pipe = "PLAYING"
    THEN LET w1 == UResetCrossfadeTimer([w EXCEPT !.pipe = "PAUSED"], 0)
         IN  Emit([w1 EXCEPT !.ret = "True"], "playback_pause", UCurrent(w1))
    ELSE [w EXCEPT !.ret = "False"]

\* UnifiedPlayer.unpause.  self.current.is_local() raises when nothing is
\* current.
UUnpause(w, pos) ==
    IF w.pipe = "PAUSED"
    THEN IF UCurrent(w) = None
         THEN [w EXCEPT !.raised = TRUE]
         ELSE LET w1 == UResetCrossfadeTimer([w EXCEPT !.pipe = "PLAYING"], pos)
              IN  IF w1.raised THEN w1
                  ELSE Emit([w1 EXCEPT !.ret = "True"], "playback_resume",
                            UCurrent(w1))
    ELSE [w EXCEPT !.ret = "False"]

\* UnifiedPlayer.seek: the seek goes to the backend, then the timer is reset
\* from the position the backend now reports.
USeek(w, pos) ==
    IF ~w.streams[w.current_stream].live
    THEN [w EXCEPT !.raised = TRUE]
    ELSE UResetCrossfadeTimer(w, pos)

\* UnifiedPlayer._fade_stream, for the timer t at the head of fades.
UFadeStream(w, t) ==
    LET cur == VolAdd(w.streams[t.slot].vol, t.dir)
        \* the volume property rejects a value outside its range [0, 10]
        w1 == IF VolNegative(cur) THEN w ELSE [w EXCEPT !.streams[t.slot].vol = cur]
    IN  IF t.del /\ VolLt001(cur)
        THEN [UnlinkStream(w1, t.slot) EXCEPT !.ret = "False"]
        ELSE IF ~VolLt001(cur) /\ VolLe1(cur)
        THEN [w1 EXCEPT !.fades = Tail(@) \o <<t>>, !.ret = "True"]
        ELSE [w1 EXCEPT !.fades = Tail(@), !.ret = "False"]

\* ------------------------------------------------------------ engine dispatch
PlayerCurrent(w) == IF engine = "unified" THEN UCurrent(w) ELSE w.current

PlayerStop(w) == IF engine = "unified" THEN UStop(w) ELSE BStop(w)

PlayerPlay(w, track) ==
    IF engine = "unified" THEN UPlay(w, track, TRUE) ELSE BPlay(w, track)

\* on_message for gst.MESSAGE_ERROR.  BaseGSTPlayer (331-334) hands the text
\* to _on_playback_error (445-449), which logs the event and nothing else;
\* UnifiedPlayer.on_message (686-688) has a branch for EOS only.  The
\* pipeline stays in the state it had.
PlayerOnMessageError(w) ==
    IF engine = "unified" THEN w ELSE Emit(w, "playback_error", "message")

\* BaseGSTPlayer.on_message for gst.MESSAGE_BUFFERING (335-343).
BOnMessageBuffering(w, percent) ==
    LET w1 == [w EXCEPT !.pipe = IF percent < 100 THEN "PAUSED" ELSE "PLAYING"]
    IN  IF percent % 5 = 0
        THEN Emit(w1, "playback_buffering", percent)
        ELSE w1

\* A quotient of two numbers, kept as the pair.
Ratio(num, den) == [num |-> num, den |-> den]

\* get_progress of either engine (395-403, 756-761), the backend reporting
\* get_time() = time and the current track get_duration() = duration.  With
\* no current track self.current.get_duration() raises AttributeError, which
\* the handler for ZeroDivisionError does not catch.
PlayerGetProgress(w, time, duration) ==
    IF PlayerCurrent(w) = None
    THEN [w EXCEPT !.raised = TRUE]
    ELSE IF duration = 0
         THEN [w EXCEPT !.progress = Ratio(0, 1)]
         ELSE [w EXCEPT !.progress = Ratio(time, duration)]

\* ------------------------------------------------------------ PlayQueue
PrevThreshold == 5

\* PlayQueue.get_current
QGetCurrent(w) ==
    IF PlayerCurrent(w) # None /\ w.current_pos > 0
    THEN PlayerCurrent(w)
    ELSE LET c == PlaylistGetCurrent(w)
         IN  IF c = None /\ w.current_playlist # None
             THEN PlaylistAt(w.pl_pos)
             ELSE c

\* The stop-marker branch without the reset of the marker.
QNextStopTrackKeepsMarker(w) ==
    LET w1 == Emit(PlayerStop(w), "stop_track", w.stop_track)
    IN  [w1 EXCEPT !.marker_stops = IF @ < 2 THEN @ + 1 ELSE @, !.ret = None]

\* The stop-marker branch of PlayQueue.next (lines 74-78).
QNextStopTrack(w) ==
    LET w1 == Emit(PlayerStop(w), "stop_track", w.stop_track)
    IN  [w1 EXCEPT !.stop_track = NoStopTrack,
                   !.marker_stops = IF @ < 2 THEN @ + 1 ELSE @,
                   !.ret = None]

\* The choice of the track, taking the explicit queue from its back.
QNextTakeLast(w) ==
    IF w.ordered_tracks = <<>>
    THEN IF w.current_playlist # None
         THEN [w EXCEPT !.ret = PlaylistNextTrack(w.pl_pos),
                        !.pl_pos = PlaylistNextPos(@),
                        !.pl_playing = TRUE,
                        !.current_playing = FALSE]
         ELSE [w EXCEPT !.ret = None]
    ELSE [w EXCEPT !.ret = w.ordered_tracks[Len(w.ordered_tracks)],
                   !.ordered_tracks = SubSeq(@, 1, Len(@) - 1),
                   !.current_pos = 0,
                   !.current_playing = TRUE,
                   !.pl_playing = IF w.current_playlist # None THEN FALSE ELSE @]

\* The choice of the track, the queue's flag left alone when the playlist
\* advances.
QNextTakeKeepsFlag(w) ==
    IF w.ordered_tracks = <<>>
    THEN IF w.current_playlist # None
         THEN [w EXCEPT !.ret = PlaylistNextTrack(w.pl_pos),
                        !.pl_pos = PlaylistNextPos(@),
                        !.pl_playing = TRUE]
         ELSE [w EXCEPT !.ret = None]
    ELSE [w EXCEPT !.ret = Head(w.ordered_tracks),
                   !.ordered_tracks = Tail(@),
                   !.current_pos = 0,
                   !.current_playing = TRUE,
                   !.pl_playing = IF w.current_playlist # None THEN FALSE ELSE @]

\* The choice of the track in PlayQueue.next (lines 80-90): .ret is the track.
QNextTake(w) ==
    IF w.ordered_tracks = <<>>
    THEN IF w.current_playlist # None
         THEN [w EXCEPT !.ret = PlaylistNextTrack(w.pl_pos),
                        !.pl_pos = PlaylistNextPos(@),
                        !.pl_playing = TRUE,
                        !.current_playing = FALSE]
         ELSE [w EXCEPT !.ret = None]
    ELSE [w EXCEPT !.ret = Head(w.ordered_tracks),
                   !.ordered_tracks = Tail(@),
                   !.current_pos = 0,
                   !.current_playing = TRUE,
                   !.pl_playing = IF w.current_playlist # None THEN FALSE ELSE @]

\* The end of PlayQueue.next (lines 91-96), for the chosen track.
QNextPlay(w, player, track) ==
    IF player
    THEN IF track = None
         THEN [PlayerStop(w) EXCEPT !.ret = None]
         ELSE [PlayerPlay(w, track) EXCEPT !.ret = track]
    ELSE [w EXCEPT !.ret = track]

\* PlayQueue.next.  .nx records the call: its arguments, whether the current
\* track was the stop marker on entry, and what it returned.
QNext(w, player, track) ==
    LET hit == PlayerCurrent(w) = w.stop_track
        w1 == IF track # None THEN w
              ELSE IF player /\ hit THEN QNextStopTrack(w)
              ELSE LET w2 == QNextTake(w) IN QNextPlay(w2, player, w2.ret)
        w3 == IF track # None THEN QNextPlay(w, player, track) ELSE w1
    IN  [w3 EXCEPT !.nx = [player |-> player, track |-> track, hit |-> hit,
                           ret |-> w3.ret]]

\* PlayQueue.prev restarting only after more than the threshold.
QPrevStrict(w, time) ==
    LET cur == PlayerCurrent(w)
        w1 == IF cur # None
              THEN IF time <= PrevThreshold
                   THEN IF w.current_playlist # None
                        THEN [w EXCEPT !.ret = PlaylistPrevTrack(w.pl_pos),
                                       !.pl_pos = PlaylistPrevPos(@)]
                        ELSE [w EXCEPT !.ret = None]
                   ELSE [w EXCEPT !.ret = cur]
              ELSE [w EXCEPT !.ret = QGetCurrent(w)]
    IN  [PlayerPlay(w1, w1.ret) EXCEPT !.ret = w1.ret]

\* PlayQueue.prev.  time is what player.get_time() returns.
QPrev(w, time) ==
    LET cur == PlayerCurrent(w)
        w1 == IF cur # None
              THEN IF time < PrevThreshold
                   THEN IF w.current_playlist # None
                        THEN [w EXCEPT !.ret = PlaylistPrevTrack(w.pl_pos),
                                       !.pl_pos = PlaylistPrevPos(@)]
                        ELSE [w EXCEPT !.ret = None]
                   ELSE [w EXCEPT !.ret = cur]
              ELSE [w EXCEPT !.ret = QGetCurrent(w)]
    IN  [PlayerPlay(w1, w1.ret) EXCEPT !.ret = w1.ret]

\* PlayQueue.play
QPlay(w, track) ==
    IF w.pipe = "PLAYING" /\ track = None
    THEN w
    ELSE LET t == IF track = None THEN QGetCurrent(w) ELSE track
         IN  IF t # None THEN PlayerPlay(w, t) ELSE QNext(w, TRUE, None)

\* toggle_pause of either engine: the playbin engines log
\* playback_toggle_pause after it (437), the unified engine logs nothing more.
PlayerTogglePause(w, pos) ==
    LET w1 == IF engine = "unified"
              THEN (IF w.pipe = "PAUSED" THEN UUnpause(w, pos) ELSE UPause(w))
              ELSE (IF w.pipe = "PAUSED" THEN BUnpause(w) ELSE BPause(w))
    IN  IF engine = "unified" \/ w1.raised
        THEN w1
        ELSE Emit(w1, "playback_toggle_pause", w1.current)

\* seek of either engine: BaseGSTPlayer.seek sends the event to the playbin.
PlayerSeek(w, pos) == IF engine = "unified" THEN USeek(w, pos) ELSE w

\* A call of the player made by _restore_player_state, in order.
Called(w, name) == [w EXCEPT !.calls = Append(@, name)]

\* self.player.get_volume() (163).  BaseGSTPlayer and UnifiedPlayer define
\* set_volume only (314, 714); get_volume exists on AudioStream and BaseSink.
\* The attribute lookup on the player raises AttributeError.
PlayerGetVolume(w) == [w EXCEPT !.raised = TRUE]

\* _restore_player_state from set_volume(0) on (164-175), vol being the
\* volume to restore.
QRestoreMuted(w, vol, saved, resume_paused) ==
    LET w1 == Called([w EXCEPT !.volume = 0], "set_volume")
        w2 == Called(QPlay(w1, None), "play")
    IN  IF PlayerCurrent(w2) = None
        THEN w2
        ELSE LET w3 == Called(PlayerSeek(w2, saved.position), "seek")
                 w4 == IF saved.state = "paused" \/ resume_paused
                       THEN Called(PlayerTogglePause(w3, saved.position),
                                   "toggle_pause")
                       ELSE w3
                 w5 == Called([w4 EXCEPT !.volume = vol], "set_volume")
             IN  [w5 EXCEPT !.playtime_stamp = saved.playtime_stamp]

\* PlayQueue._restore_player_state once the pickled state was read and has
\* its three keys, player/resume_playback being on.  saved: the pickled
\* state; resume_paused: the setting player/resume_paused; w.volume: the
\* master volume.
QRestorePlayerState(w, saved, resume_paused) ==
    IF saved.state \notin {"playing", "paused"}
    THEN w
    ELSE LET w0 == PlayerGetVolume(w)
         IN  IF w0.raised
             THEN w0
             ELSE QRestoreMuted(w0, w0.volume, saved, resume_paused)

\* ------------------------------------------------------------ callbacks
\* BaseGSTPlayer.on_message for an EOS message: eof_func is queue.next().
BOnMessageEos(w) ==
    LET w1 == [w EXCEPT !.eos = FALSE]
    IN  IF w1.pipe # "PAUSED" THEN QNext(w1, TRUE, None) ELSE w1

\* GaplessPlayer._on_finish
GOnFinish(w) ==
    LET w1 == QNext([w EXCEPT !.atf = FALSE], TRUE, None)
    IN  IF w1.ret = None THEN [BStop(w1) EXCEPT !.ret = None] ELSE w1

\* UnifiedPlayer._on_drained
UOnDrained(w, s) ==
    LET w1 == UnlinkStream(w, s)
    IN  IF ~crossfading
        THEN LET w2 == QNext(w1, FALSE, None) IN UPlay(w2, w2.ret, FALSE)
        ELSE w1

\* UnifiedPlayer._start_crossfade, after its source was taken off the loop.
UStartCrossfade(w) ==
    LET w1 == QNext(w, FALSE, None)
        tr == w1.ret
        w2 == IF tr # None THEN UPlay(w1, tr, FALSE) ELSE w1
        w3 == [w2 EXCEPT !.timer_id = "none"]
    IN  IF tr = None
        THEN IF UCurrent(w3) = None
             THEN [w3 EXCEPT !.raised = TRUE, !.ret = None]
             ELSE [w3 EXCEPT !.timer_id = "stop", !.ret = "False"]
        ELSE [w3 EXCEPT !.ret = "False"]

\* ------------------------------------------------------------ actions
\* The calls of the queue's and the player's interface that last records.
ApiCalls == {"next", "prev", "play", "stop"}

\* No call of the interface was the last step.
NoLast == [op |-> "none", time |-> 0, ret |-> None]

\* The handler's result w becomes the next state; last records an interface
\* call, the time it was given and what it returned.
CommitPlayer(w, op, time) ==
    /\ w.xfade_sources <= MaxSources
    /\ w.orphans <= MaxOrphans
    /\ ordered_tracks' = w.ordered_tracks
    /\ stop_track' = w.stop_track
    /\ current_playing' = w.current_playing
    /\ current_pos' = w.current_pos
    /\ current_playlist' = w.current_playlist
    /\ pl_pos' = w.pl_pos
    /\ pl_playing' = w.pl_playing
    /\ pipe' = w.pipe
    /\ current' = w.current
    /\ eos' = w.eos
    /\ atf' = w.atf
    /\ streams' = w.streams
    /\ current_stream' = w.current_stream
    /\ orphans' = w.orphans
    /\ timer_id' = w.timer_id
    /\ xfade_sources' = w.xfade_sources
    /\ fades' = w.fades
    /\ idle_pipe' = w.idle_pipe
    /\ playtime_stamp' = w.playtime_stamp
    /\ playtime' = w.playtime
    /\ marker_stops' = w.marker_stops
    /\ last' = IF op \in ApiCalls
               THEN [op |-> op, time |-> time, ret |-> w.ret]
               ELSE NoLast
    /\ UNCHANGED <<engine, user_fade_enabled, crossfading, now, playing_time>>
    /\ UNCHANGED seekvars

\* A handler that the main loop runs from its first line to its last.
Commit(w, op, time) == CommitPlayer(w, op, time) /\ UNCHANGED play_pc

\* Playlist.add on the queue (not in this file): appends at the back.
EnqueueOf(T, cap) ==
    \E t \in T :
        /\ Len(ordered_tracks) < cap
        /\ Commit([W EXCEPT !.ordered_tracks = Append(@, t)], "enqueue", 0)

Enqueue == EnqueueOf(QueueTracks, MaxQueue)

\* The stop-track setter (not in this file): assigns queue.stop_track.
SetStopTrack ==
    \E t \in MarkedTracks :
        Commit([W EXCEPT !.stop_track = t, !.marker_stops = 0],
               "set_stop_track", 0)

\* PlayQueue.set_current_playlist
SetCurrentPlaylist ==
    \E p \in {None, "pl"} :
        /\ p # current_playlist
        /\ Commit([W EXCEPT !.current_playlist = p], "set_current_playlist", 0)

QueueNext ==
    \E player \in BOOLEAN, t \in Tracks \cup {None} :
        Commit(QNext(W, player, t), "next", 0)

QueuePrev ==
    \E time \in (PrevThreshold - 1)..MaxTime :
        Commit(QPrev(W, time), "prev", time)

PlayOf(T) ==
    \E t \in T :
        Commit(PlayerPlay(W, t), "play", 0)

Play == PlayOf(Tracks \cup {None})

Stop == Commit(PlayerStop(W), "stop", 0)

Pause ==
    Commit(IF engine = "unified" THEN UPause(W) ELSE BPause(W),
           "pause", 0)

Unpause ==
    \E pos \in 0..MaxTime :
        Commit(IF engine = "unified" THEN UUnpause(W, pos) ELSE BUnpause(W),
               "unpause", 0)

\* UnifiedPlayer.seek
Seek ==
    \E pos \in 0..MaxTime :
        /\ engine = "unified"
        /\ Commit(USeek(W, pos), "seek", 0)

\* The playbin reaches the end of the stream and posts EOS on the bus.
PostEos ==
    /\ engine \in {"gst", "gapless"}
    /\ pipe = "PLAYING"
    /\ current # None
    /\ ~eos
    /\ Commit([W EXCEPT !.eos = TRUE], "post_eos", 0)

\* The bus watch delivers the EOS message to on_message.
OnMessageEos ==
    /\ eos
    /\ Commit(BOnMessageEos(W), "on_message_eos", 0)

\* playbin2 emits about-to-finish; on_finish queues _on_finish as an idle.
AboutToFinish ==
    /\ engine = "gapless"
    /\ pipe = "PLAYING"
    /\ current # None
    /\ ~atf
    /\ Commit([W EXCEPT !.atf = TRUE], "on_finish", 0)

\* The loop runs the idle _on_finish.
OnFinish ==
    /\ atf
    /\ Commit(GOnFinish(W), "_on_finish", 0)

\* A playing stream's decoder is exhausted: _on_drained runs for it.
Drained ==
    \E s \in Slots :
        /\ engine = "unified"
        /\ pipe = "PLAYING"
        /\ streams[s].live
        /\ streams[s].track # None
        /\ Commit(UOnDrained(W, s), "_on_drained", 0)

\* The fade timer at the head of the firing order ticks.
FadeTick ==
    /\ ~idle_pipe
    /\ fades # <<>>
    /\ Commit(UFadeStream(W, Head(fades)), "_fade_stream", 0)

\* A _start_crossfade source that self.timer_id does not hold fires.
CrossfadeSource ==
    /\ ~idle_pipe
    /\ xfade_sources > 0
    /\ Commit(UStartCrossfade([W EXCEPT !.xfade_sources = @ - 1]),
              "_start_crossfade", 0)

\* The _start_crossfade timer held in self.timer_id fires.
CrossfadeTimer ==
    /\ ~idle_pipe
    /\ timer_id = "xfade"
    /\ Commit(UStartCrossfade([W EXCEPT !.timer_id = "none"]),
              "_start_crossfade", 0)

\* The stop timer armed by _start_crossfade fires: it calls self.stop, which
\* removes the source through _reset_crossfade_timer, or returns False.
StopTimer ==
    /\ ~idle_pipe
    /\ timer_id = "stop"
    /\ Commit(UStop([W EXCEPT !.timer_id = "none"]), "stop_timer", 0)

\* The idle _set_state(self.pipe, gst.STATE_PLAYING) queued by play runs.
IdleSetState ==
    /\ idle_pipe
    /\ Commit([W EXCEPT !.pipe = "PLAYING", !.idle_pipe = FALSE], "_set_state", 0)

\* One second passes on the wall clock; a playbin engine in the PLAYING state
\* renders its current track during it.
Tick ==
    /\ now < MaxClock
    /\ now' = now + 1
    /\ playing_time' = IF engine # "unified" /\ pipe = "PLAYING" /\ current # None
                       THEN [playing_time EXCEPT ![current] = @ + 1]
                       ELSE playing_time
    /\ last' = NoLast
    /\ UNCHANGED <<engine, user_fade_enabled, crossfading, ordered_tracks,
                   stop_track, current_playing, current_pos, current_playlist,
                   pl_pos, pl_playing, pipe, current, eos, atf, streams,
                   current_stream, orphans, timer_id, xfade_sources, fades,
                   idle_pipe, playtime_stamp, playtime, marker_stops,
                   play_pc>>
    /\ UNCHANGED seekvars

\* ------------------------------------------------------------ drained
\* The main loop is not inside play().
NoPlay == [active |-> FALSE, nxt |-> 0, track |-> None, fading |-> FALSE]

\* The tracks of a session in which every file can be played.
PlayableTracks == {"a"}

(* The decoder emits "drained" in its streaming thread, and play() connects  *)
(* _on_drained to the signal directly (791-792): the handler runs in that    *)
(* thread, not as a source of the main loop.  Here a play() of the main loop *)
(* is taken in two steps, before and after it creates the new stream, and    *)
(* _on_drained may run between them.                                         *)
PlayBegin ==
    \E t \in PlayableTracks :
        /\ engine = "unified"
        /\ play_pc = NoPlay
        /\ play_pc' = [active |-> TRUE, nxt |-> 1 - current_stream,
                       track |-> t, fading |-> UPlayFading(TRUE)]
        /\ CommitPlayer(UPlayBegin(W, t, TRUE), "play_begin", 0)

PlayEnd ==
    /\ play_pc # NoPlay
    /\ play_pc' = NoPlay
    /\ CommitPlayer(UPlayEnd(W, play_pc.nxt, play_pc.track, play_pc.fading),
                    "play", 0)

\* ------------------------------------------------------------ AudioStream
(* One AudioStream from the moment UnifiedPlayer.play has set its            *)
(* _settle_flag and queued its set_state (801-802).  The main loop runs the  *)
(* idle callbacks; a second thread calls seek on the stream.  A step is one  *)
(* read or write of a shared field, so the threads interleave between any    *)
(* two of them.  event.add_callback, remove_callback and log_event are not   *)
(* in this file: log_event calls the registered callbacks in the thread that *)
(* logs.                                                                     *)
SeekPositions == {1, 2}

\* AudioStream.set_state(PLAYING), first half: self._settle_flag = 0.
SetStateBegin ==
    /\ main_pc = "loop"
    /\ set_state_idle
    /\ set_state_idle' = FALSE
    /\ settle_flag' = 0
    /\ main_pc' = "set_state"
    /\ UNCHANGED <<seek_event, gst_state, settle_subs, seek_callback, seek_pc,
                   seek_value, seek_calls, seeks>>
    /\ UNCHANGED playervars

\* set_state(PLAYING), second half: gst.Bin.set_state starts the change of
\* state, unless the stream plays already, and _settle_state sets the flag and
\* queues _settle_state_sub.
SetStateEnd ==
    /\ main_pc = "set_state"
    /\ gst_state' = IF gst_state = "NULL" THEN "READY" ELSE gst_state
    /\ settle_flag' = 1
    /\ settle_subs' = settle_subs + 1
    /\ main_pc' = "loop"
    /\ UNCHANGED <<seek_event, set_state_idle, seek_callback, seek_pc,
                   seek_value, seek_calls, seeks>>
    /\ UNCHANGED playervars

\* The backend's own thread takes the stream one state further.
Preroll ==
    /\ gst_state \in {"READY", "PAUSED"}
    /\ gst_state' = IF gst_state = "READY" THEN "PAUSED" ELSE "PLAYING"
    /\ UNCHANGED <<settle_flag, seek_event, set_state_idle, settle_subs,
                   main_pc, seek_callback, seek_pc, seek_value, seek_calls,
                   seeks>>
    /\ UNCHANGED playervars

\* _settle_state_sub up to its log_event: a stream found PAUSED is set to
\* PLAYING again and the source stays; otherwise the flag is cleared and the
\* source goes.  The backend leaves PAUSED before the loop has found it
\* there MaxSubs times.
SettleStateSub ==
    /\ main_pc = "loop"
    /\ ~set_state_idle
    /\ settle_subs > 0
    /\ (settle_flag = 1 /\ gst_state = "PAUSED") => settle_subs < MaxSubs
    /\ IF settle_flag = 1 /\ gst_state = "PAUSED"
       THEN /\ settle_flag' = 0
            /\ main_pc' = "set_state"
            /\ UNCHANGED settle_subs
       ELSE /\ settle_flag' = 0
            /\ main_pc' = "emit"
            /\ settle_subs' = settle_subs - 1
    /\ UNCHANGED <<seek_event, gst_state, set_state_idle, seek_callback,
                   seek_pc, seek_value, seek_calls, seeks>>
    /\ UNCHANGED playervars

\* log_event("stream_settled", self, None) and, when it is registered,
\* _seek_delayed: the flag is 0 and the object is this stream, so it removes
\* itself and sets the event.
StreamSettled ==
    /\ main_pc = "emit"
    /\ main_pc' = "loop"
    /\ IF seek_callback /\ settle_flag = 0
       THEN seek_callback' = FALSE /\ seek_event' = TRUE
       ELSE UNCHANGED <<seek_callback, seek_event>>
    /\ UNCHANGED <<settle_flag, gst_state, set_state_idle, settle_subs,
                   seek_pc, seek_value, seek_calls, seeks>>
    /\ UNCHANGED playervars

\* A thread calls AudioStream.seek(value).
SeekCall ==
    \E value \in SeekPositions :
        /\ seek_pc = "idle"
        /\ seek_calls < MaxSeeks
        /\ seek_calls' = seek_calls + 1
        /\ seek_value' = value
        /\ seek_pc' = "check"
        /\ UNCHANGED <<settle_flag, seek_event, gst_state, set_state_idle,
                       settle_subs, main_pc, seek_callback, seeks>>
        /\ UNCHANGED playervars

\* if self._settle_flag == 1
SeekCheck ==
    /\ seek_pc = "check"
    /\ seek_pc' = IF settle_flag = 1 THEN "add_callback" ELSE "send"
    /\ UNCHANGED <<settle_flag, seek_event, gst_state, set_state_idle,
                   settle_subs, main_pc, seek_callback, seek_value, seek_calls,
                   seeks>>
    /\ UNCHANGED playervars

\* event.add_callback(self._seek_delayed, "stream_settled")
SeekAddCallback ==
    /\ seek_pc = "add_callback"
    /\ seek_callback' = TRUE
    /\ seek_pc' = "clear"
    /\ UNCHANGED <<settle_flag, seek_event, gst_state, set_state_idle,
                   settle_subs, main_pc, seek_value, seek_calls, seeks>>
    /\ UNCHANGED playervars

\* self._seek_event.clear()
SeekClear ==
    /\ seek_pc = "clear"
    /\ seek_event' = FALSE
    /\ seek_pc' = "wait"
    /\ UNCHANGED <<settle_flag, gst_state, set_state_idle, settle_subs,
                   main_pc, seek_callback, seek_value, seek_calls, seeks>>
    /\ UNCHANGED playervars

\* self._seek_event.wait() returns.
SeekWait ==
    /\ seek_pc = "wait"
    /\ seek_event
    /\ seek_pc' = "send"
    /\ UNCHANGED <<settle_flag, seek_event, gst_state, set_state_idle,
                   settle_subs, main_pc, seek_callback, seek_value, seek_calls,
                   seeks>>
    /\ UNCHANGED playervars

\* self.vol.send_event(seekevent)
SeekSend ==
    /\ seek_pc = "send"
    /\ seeks' = Append(seeks, seek_value)
    /\ seek_pc' = "idle"
    /\ UNCHANGED <<settle_flag, seek_event, gst_state, set_state_idle,
                   settle_subs, main_pc, seek_callback, seek_value, seek_calls>>
    /\ UNCHANGED playervars

\* UnifiedPlayer.seek(value) called by a handler of the main loop: the loop
\* thread itself enters AudioStream.seek and runs no other source until the
\* call returns.
LoopSeekCall ==
    \E value \in SeekPositions :
        /\ main_pc = "loop"
        /\ seek_pc = "idle"
        /\ seek_calls < MaxSeeks
        /\ seek_calls' = seek_calls + 1
        /\ seek_value' = value
        /\ seek_pc' = "check"
        /\ main_pc' = "seek"
        /\ UNCHANGED <<settle_flag, seek_event, gst_state, set_state_idle,
                       settle_subs, seek_callback, seeks>>
        /\ UNCHANGED playervars

\* AudioStream.seek has returned; with crossfading off _reset_crossfade_timer
\* arms nothing, and the handler gives the thread back to the loop.
LoopSeekReturn ==
    /\ main_pc = "seek"
    /\ seek_pc = "idle"
    /\ main_pc' = "loop"
    /\ UNCHANGED <<settle_flag, seek_event, gst_state, set_state_idle,
                   settle_subs, seek_callback, seek_pc, seek_value,
                   seek_calls, seeks>>
    /\ UNCHANGED playervars

\* ------------------------------------------------------------ properties
\* The stop marker is hit: the track the engine renders is the marked one.
MarkerHit == PlayerCurrent(W) = stop_track

\* Neither the explicit queue nor the active playlist yields a next track.
NoNextTrack ==
    /\ ordered_tracks = <<>>
    /\ current_playlist # None => PlaylistNextTrack(pl_pos) = None

\* A stream that exists and has no track bound sits in a slot.
Unconfigured(strs) ==
    \E s \in Slots : strs[s].live /\ strs[s].track = None

C2_FailedPlayLeavesNoUnconfigured ==
    (engine = "unified" /\ last.op = "play" /\ last.ret = "False")
        => ~Unconfigured(streams)

(* C3: when a play with a fade policy fails to configure the incoming       *)
(* stream while another stream is playing, the outgoing stream stays linked *)
(* to the adder and the engine stays Playing with that track current.       *)
C3_FailedFadeKeepsOutgoing ==
    \A t \in Tracks, user \in BOOLEAN :
        LET fading == IF user THEN user_fade_enabled ELSE crossfading
            r == UPlay(W, t, user)
        IN  (fading /\ pipe = "PLAYING" /\ UCurrent(W) # None
                /\ r.play_ret = "False")
            => /\ r.pipe = "PLAYING"
               /\ r.streams[current_stream].linked
               /\ UCurrent(r) = UCurrent(W)

(* C4: next() with player advance and no explicit track, called while the   *)
(* marked track is current, stops the player, emits exactly one stop_track  *)
(* event, resets the marker to -1 and returns nothing, taking no track;     *)
(* with the marker cleared no next() emits stop_track, and one marker       *)
(* causes at most one stop.                                                 *)
C4_StopMarkerStopsOnce ==
    /\ MarkerHit =>
          LET r == QNext(W, TRUE, None)
          IN  /\ r.pipe = "NULL"
              /\ PlayerCurrent(r) = None
              /\ CountEvents(r.ev, "stop_track") = 1
              /\ r.stop_track = NoStopTrack
              /\ r.ret = None
              /\ r.ordered_tracks = ordered_tracks
              /\ r.pl_pos = pl_pos
    /\ stop_track = NoStopTrack =>
          \A player \in BOOLEAN, t \in Tracks \cup {None} :
              CountEvents(QNext(W, player, t).ev, "stop_track") = 0
    /\ marker_stops <= 1

\* next() has just stopped the player on the marker and cleared it.
C4_Witness ==
    /\ last.op = "next"
    /\ last.ret = None
    /\ marker_stops = 1
    /\ stop_track = NoStopTrack
    /\ pipe = "NULL"

(* C5: every next() without an explicit track, with or without player       *)
(* advance, called while the rendering track is the marked one, stops       *)
(* playback, emits stop_track, clears the marker and returns no track.      *)
C5_EveryNextHonoursMarker ==
    \A player \in BOOLEAN :
        MarkerHit =>
            LET r == QNext(W, player, None)
            IN  /\ r.pipe = "NULL"
                /\ CountEvents(r.ev, "stop_track") = 1
                /\ r.stop_track = NoStopTrack
                /\ r.ret = None

(* C6: next() without an explicit track and without a marker hit, called    *)
(* with a non-empty explicit queue, returns the track at the front, removes *)
(* exactly that track and leaves the playlist where it is; the playlist     *)
(* advances only in calls made with an empty explicit queue.                *)
C6_QueueIsFifo ==
    \A player \in BOOLEAN :
        /\ (ordered_tracks # <<>> /\ ~(player /\ MarkerHit)) =>
              LET r == QNext(W, player, None)
              IN  /\ r.ret = ordered_tracks[1]
                  /\ r.ordered_tracks = SubSeq(ordered_tracks, 2, Len(ordered_tracks))
                  /\ r.pl_pos = pl_pos
        /\ \A t \in Tracks \cup {None} :
              QNext(W, player, t).pl_pos # pl_pos => (ordered_tracks = <<>> /\ t = None)

\* next() has just returned the first of two queued tracks.
C6_Witness ==
    /\ last.op = "next"
    /\ last.ret = "b"
    /\ current_playing
    /\ ordered_tracks = <<"x">>

(* C7 as written: with an empty explicit queue every next() and prev()      *)
(* returns what the active playlist's next() and prev() return, and after   *)
(* any next() exactly one of the queue and the playlist is flagged as       *)
(* currently playing.                                                       *)
C7_QueueDefersToPlaylist ==
    /\ (ordered_tracks = <<>> /\ current_playlist # None) =>
          /\ \A player \in BOOLEAN :
                QNext(W, player, None).ret = PlaylistNextTrack(pl_pos)
          /\ \A time \in 0..MaxTime :
                QPrev(W, time).ret = PlaylistPrevTrack(pl_pos)
    /\ \A player \in BOOLEAN, t \in Tracks \cup {None} :
          LET r == QNext(W, player, t)
          IN  r.current_playing # r.pl_playing

(* C7 amended: with an empty explicit queue and an active playlist, next()  *)
(* without an explicit track and without a marker hit returns what the      *)
(* playlist's next() returns and flags the playlist, not the queue; prev()  *)
(* with a track rendering returns what the playlist's prev() returns only   *)
(* below 5 seconds, and the rendering track from 5 seconds on; a next()     *)
(* that pops the explicit queue flags the queue, not the playlist.          *)
C7_QueueDefersToPlaylistAmended ==
    /\ (ordered_tracks = <<>> /\ current_playlist # None) =>
          /\ \A player \in BOOLEAN :
                ~(player /\ MarkerHit) =>
                    LET r == QNext(W, player, None)
                    IN  /\ r.ret = PlaylistNextTrack(pl_pos)
                        /\ r.pl_playing
                        /\ ~r.current_playing
          /\ PlayerCurrent(W) # None =>
                \A time \in 0..MaxTime :
                    QPrev(W, time).ret =
                        IF time < 5 THEN PlaylistPrevTrack(pl_pos)
                        ELSE PlayerCurrent(W)
    /\ (ordered_tracks # <<>> /\ current_playlist # None) =>
          \A player \in BOOLEAN :
              ~(player /\ MarkerHit) =>
                  LET r == QNext(W, player, None)
                  IN  r.current_playing /\ ~r.pl_playing

\* next() has just taken the playlist's next track after a queued one.
C7_Witness ==
    /\ last.op = "next"
    /\ ordered_tracks = <<>>
    /\ current_playlist # None
    /\ pl_playing
    /\ ~current_playing
    /\ current_pos = 0
    /\ last.ret = PlaylistAt(pl_pos)
    /\ last.ret # None

(* C8 as written: prev() with a track rendering restarts that track if and  *)
(* only if more than 5 seconds have elapsed, and plays the playlist's       *)
(* previous track at 5 seconds or less; with nothing rendering it plays     *)
(* the current item.                                                        *)
C8_PrevRestartsAfterFive ==
    \A time \in 0..MaxTime :
        LET r == QPrev(W, time)
        IN  /\ (PlayerCurrent(W) # None /\ current_playlist # None) =>
                  r.ret = IF time > 5 THEN PlayerCurrent(W)
                          ELSE PlaylistPrevTrack(pl_pos)
            /\ PlayerCurrent(W) = None => r.ret = QGetCurrent(W)

(* C8 amended: prev() with a track rendering restarts that track if and     *)
(* only if at least 5 seconds have elapsed; below 5 seconds it plays the    *)
(* playlist's previous track (nothing without a playlist); with nothing     *)
(* rendering it plays the current item.                                     *)
C8_PrevRestartsFromFive ==
    \A time \in 0..MaxTime :
        LET r == QPrev(W, time)
            cur == PlayerCurrent(W)
        IN  /\ r.played = r.ret
            /\ (cur # None /\ time >= 5) =>
                  /\ r.ret = cur
                  /\ r.pl_pos = pl_pos
                  /\ PlayerCurrent(r) = cur
            /\ (cur # None /\ time < 5) =>
                  r.ret = IF current_playlist # None
                          THEN PlaylistPrevTrack(pl_pos) ELSE None
            /\ cur = None => r.ret = QGetCurrent(W)

\* prev() at exactly 5 seconds has just restarted a track that is not the
\* playlist's.
C8_Witness ==
    /\ last.op = "prev"
    /\ last.time = 5
    /\ current # None
    /\ last.ret = current
    /\ current_playlist # None
    /\ current # PlaylistAt(pl_pos)
    /\ ordered_tracks = <<>>

(* C9: when the current track ends and neither the explicit queue nor the   *)
(* playlist yields a next track, the engine's end-of-track handler leaves   *)
(* it Stopped with no current track and a playback_end event emitted, or    *)
(* with a timer armed that will stop it; it is never left Playing with no   *)
(* stream linked.                                                           *)
C9_EndOfTrackStops ==
    /\ (engine \in {"gst", "gapless"} /\ eos /\ pipe = "PLAYING" /\ NoNextTrack) =>
          LET r == BOnMessageEos(W)
          IN  r.pipe = "NULL" /\ r.current = None /\ "playback_end" \in EventNames(r.ev)
    /\ (engine = "gapless" /\ atf /\ pipe = "PLAYING" /\ NoNextTrack) =>
          LET r == GOnFinish(W)
          IN  r.pipe = "NULL" /\ r.current = None /\ "playback_end" \in EventNames(r.ev)
    /\ (engine = "unified" /\ pipe = "PLAYING" /\ NoNextTrack
            /\ streams[current_stream].live /\ streams[current_stream].track # None) =>
          LET r == UOnDrained(W, current_stream)
          IN  \/ /\ r.pipe = "NULL"
                 /\ UCurrent(r) = None
                 /\ "playback_end" \in EventNames(r.ev)
              \/ r.timer_id = "stop"

(* C10: the volume of a stream that fades in never exceeds 1.0, and a       *)
(* stream whose fade-in timer is still armed has not reached 1.             *)
C10_FadeInWithinUnit ==
    /\ \A s \in Slots : streams[s].live => VolLe1(streams[s].vol)
    /\ \A i \in 1..Len(fades) :
          fades[i].dir = 1 => Hundredths(streams[fades[i].slot].vol) < 100

\* a <= b for two volumes: the error term is far smaller than a hundredth.
VolLeq(a, b) == a.h < b.h \/ (a.h = b.h /\ a.e <= b.e)

\* The stream in slot s is the same outgoing stream before and after the step:
\* play fills the slot that is not current and makes it the current one.
StaysOutgoing(s) ==
    /\ s # current_stream /\ s # current_stream'
    /\ streams[s].live /\ streams'[s].live
    /\ streams[s].track # None /\ streams'[s].track = streams[s].track

\* The stream in slot s is the same current stream before and after the step.
StaysCurrent(s) ==
    /\ s = current_stream /\ s = current_stream'
    /\ streams[s].live /\ streams'[s].live
    /\ streams[s].track # None /\ streams'[s].track = streams[s].track

(* C11: in every step a stream that stays the outgoing one does not gain     *)
(* volume, and a stream that stays the current one does not lose volume.    *)
C11_FadesAreMonotonic ==
    [][\A s \in Slots :
          /\ StaysOutgoing(s) => VolLeq(streams'[s].vol, streams[s].vol)
          /\ StaysCurrent(s) => VolLeq(streams[s].vol, streams'[s].vol)]_vars

\* The stream in slot s was demoted with a fade: its fade-out timer is armed.
Outgoing(s) ==
    /\ s # current_stream
    /\ streams[s].live
    /\ \E i \in 1..Len(fades) : fades[i].slot = s /\ fades[i].dir = -1

VolLe001(v) == v.h < 1 \/ (v.h = 1 /\ v.e <= 0)             \* v <= 0.01

(* C12: a step that is not a stop and after which a stream that was fading  *)
(* out is no longer in its slot finds that stream at a volume of at most    *)
(* 0.01, the tick that detaches it included.                                *)
C12_OutgoingLeavesAtZero ==
    [][\A s \in Slots :
          (Outgoing(s) /\ pipe' # "NULL" /\ ~StaysOutgoing(s))
              => VolLe001(VolAdd(streams[s].vol, -1))]_vars

\* The playtime a stopping engine owed its track has been credited: the
\* playbin engines clear playtime_stamp in update_playtime; the unified engine
\* has no unlinked stream left whose update_playtime is still to run.
PlaytimeFlushed(r) ==
    IF engine = "unified"
    THEN \A i \in 1..Len(r.deferred) : r.deferred[i].track = None
    ELSE r.playtime_stamp = NoStamp

\* C13: stop() while Playing or Paused leaves the engine Stopped with no
\* stream attached and no current track, the playtime flushed into the track
\* that was current, and exactly one playback_end carrying that track;
\* stop() while Stopped returns False, emits nothing and changes nothing.
C13_StopLeavesStopped ==
    LET r == PlayerStop(W)
    IN  IF pipe \in {"PLAYING", "PAUSED"}
        THEN /\ r.ret = "True"
             /\ r.pipe = "NULL"
             /\ Attached(r.streams, r.orphans) = 0
             /\ PlayerCurrent(r) = None
             /\ PlaytimeFlushed(r)
             /\ r.ev = <<[name |-> "playback_end", arg |-> PlayerCurrent(W)]>>
        ELSE r = [W EXCEPT !.ret = "False"]

\* The explicit queue is as it was, or the environment appended to it.
QueueNotAdvanced ==
    \/ ordered_tracks' = ordered_tracks
    \/ \E t \in Tracks : ordered_tracks' = Append(ordered_tracks, t)

\* C14: once stop() has returned, no callback armed before it (fade tick,
\* crossfade timer, deferred state change, deferred about-to-finish) advances
\* the queue, attaches a stream or starts playback: a step that is no call of
\* the interface leaves the engine Stopped and the queue where it was.
C14_StopCancelsCallbacks ==
    [][(last.op = "stop" /\ last.ret = "True" /\ last'.op = "none")
          => /\ pipe' = "NULL"
             /\ PlayerCurrent(W)' = None
             /\ Attached(streams', orphans') = 0
             /\ QueueNotAdvanced]_vars

\* The unified engine is Playing a track with crossfade enabled.
CrossfadePlaying ==
    /\ engine = "unified"
    /\ crossfading
    /\ pipe = "PLAYING"
    /\ UCurrent(W) # None

\* C15: after seek(p) while Playing a track of duration D ms with crossfade
\* duration F ms, the next crossfade starts immediately iff p * 1000 >= D - F
\* and is otherwise scheduled exactly D - F - p * 1000 ms ahead.
C15_SeekSchedulesCrossfade ==
    \A p \in 0..MaxTime :
        CrossfadePlaying =>
            LET r == USeek(W, p)
                ahead == TrackDuration * 1000 - CrossfadeDuration - p * 1000
            IN  IF p * 1000 >= TrackDuration * 1000 - CrossfadeDuration
                THEN r.sched = "idle_add"
                ELSE r.sched = "timeout_add" /\ r.delay = ahead

\* The current track has played to its end (its stream was drained and left
\* its slot, the pipe still playing) and the queue holds a playable track.
EndedWithNext ==
    /\ engine = "unified"
    /\ pipe = "PLAYING"
    /\ ~streams[current_stream].live
    /\ ordered_tracks # <<>>
    /\ TrackExists(Head(ordered_tracks))

\* C16: whenever the current track plays to its end while a next track is
\* available, the engine eventually starts that next track, whatever the two
\* fade settings are.
C16_EndedTrackIsFollowed == EndedWithNext ~> (UCurrent(W) # None)

\* C17: in the gapless engine, when the deferred about-to-finish handler finds
\* a next track, it hands the playbin that track without a stop: no
\* playback_end is emitted before the next track starts, and the queue is
\* advanced once.
C17_GaplessHandsOver ==
    LET r == GOnFinish(W)
    IN  (engine = "gapless" /\ atf /\ pipe = "PLAYING" /\ r.ret \in GoodTracks)
            => /\ CountEvents(r.ev, "playback_end") = 0
               /\ r.pipe = "PLAYING"
               /\ r.current = r.ret
               /\ Len(r.ordered_tracks) >= Len(ordered_tracks) - 1

\* C18: over any sequence of play, pause, unpause and stop, the playtime
\* credited to a track is the time the engine spent Playing it: once the
\* engine is Stopped the two are equal, paused time counting for nothing.
C18_PlaytimeIsPlayingTime ==
    (engine # "unified" /\ pipe = "NULL")
        => \A t \in GoodTracks : playtime[t] = playing_time[t]

\* The seeking thread found the settle flag set and has not sent its seek yet.
SeekDelayed == seek_pc \in {"add_callback", "clear", "wait"}

\* C19: a seek issued while the stream's settle flag is set is never lost:
\* whatever the interleaving of the seeking thread with the settle callback,
\* the seek is sent in the end.
C19_DelayedSeekIsSent == SeekDelayed ~> (seek_pc = "send")

\* The durations a track reports: unknown (0) or its length.
Durations == {0, TrackDuration}

\* C20: get_progress() returns 0 and raises nothing whenever the duration of
\* the track is 0 and whenever there is no current track; otherwise it
\* returns position / duration.
C20_ProgressNeverFails ==
    \A time \in 0..MaxTime : \A duration \in Durations :
        LET r == PlayerGetProgress(W, time, duration)
        IN  /\ ~r.raised
            /\ r.progress = IF PlayerCurrent(W) = None \/ duration = 0
                            THEN Ratio(0, 1)
                            ELSE Ratio(time, duration)

\* What play() cannot play: no track, or a local track whose file is missing.
Unplayable == MissingTracks \cup {None}

\* C21: BaseGSTPlayer.play with an unplayable track returns False, leaves the
\* engine Stopped with no current track from whatever state it was called in,
\* emits no playback_start and emits a playback_error for the attempt.
C21_FailedPlayReportsError ==
    engine # "unified" =>
        \A t \in Unplayable :
            LET r == BPlay(W, t)
            IN  /\ r.ret = "False"
                /\ r.pipe = "NULL"
                /\ r.current = None
                /\ CountEvents(r.ev, "playback_start") = 0
                /\ CountEvents(r.ev, "playback_error") >= 1

\* C22: when the backend delivers an error message while a track is playing,
\* a playback_error event is emitted and the stream is treated as ended: the
\* engine no longer reports Playing with that track as current.
C22_BackendErrorTerminates ==
    (pipe = "PLAYING" /\ PlayerCurrent(W) # None) =>
        LET r == PlayerOnMessageError(W)
        IN  /\ CountEvents(r.ev, "playback_error") = 1
            /\ ~(r.pipe = "PLAYING" /\ PlayerCurrent(r) = PlayerCurrent(W))

\* The buffering percentages the backend reports.
BufferingPercents == {0, 3, 50, 99, 100}

\* C23: buffering messages leave the transport state the user chose: below
\* 100 rendering is paused, a playback_buffering event is emitted exactly for
\* the multiples of 5, and at 100 the engine is in the state the user last
\* asked for, which is the state it has here before the message: a paused
\* player stays Paused.
C23_BufferingKeepsUserState ==
    (engine # "unified" /\ current # None) =>
        \A percent \in BufferingPercents :
            LET r == BOnMessageBuffering(W, percent)
            IN  /\ percent < 100 => r.pipe = "PAUSED"
                /\ percent = 100 => r.pipe = pipe
                /\ CountEvents(r.ev, "playback_buffering")
                       = (IF percent % 5 = 0 THEN 1 ELSE 0)

\* The states _save_player_state pickles, and the master volumes (percent).
SavedStates ==
    [state : {"playing", "paused", "stopped"}, position : {0, 3},
     playtime_stamp : {NoStamp, 0}]

Volumes == {30, 100}

\* seq is the beginning of full.
IsPrefix(seq, full) ==
    Len(seq) <= Len(full) /\ \A i \in 1..Len(seq) : seq[i] = full[i]

\* The calls a restore makes on the player when it runs to its end.
RestoreCalls(saved, resume_paused) ==
    IF saved.state \notin {"playing", "paused"} THEN <<>>
    ELSE IF saved.state = "paused" \/ resume_paused
    THEN <<"set_volume", "play", "seek", "toggle_pause", "set_volume">>
    ELSE <<"set_volume", "play", "seek", "set_volume">>

\* The restore as it would run if get_volume() returned the master volume:
\* it leaves the volume at 0 exactly when it stops before its last call.
RestoreMutedLosesVolume ==
    pipe = "NULL" =>
        \A saved \in SavedStates : \A resume_paused \in BOOLEAN :
        \A vol \in Volumes :
            LET r == QRestoreMuted([W EXCEPT !.volume = vol], vol, saved,
                                   resume_paused)
                full == IF saved.state = "paused" \/ resume_paused
                        THEN <<"set_volume", "play", "seek", "toggle_pause",
                               "set_volume">>
                        ELSE <<"set_volume", "play", "seek", "set_volume">>
            IN  /\ IsPrefix(r.calls, full)
                /\ r.volume = IF r.calls = full THEN vol ELSE 0
                /\ r.calls # full <=> PlayerCurrent(r) = None

\* C24: restoring the saved state of a stopped player mutes, plays, seeks,
\* pauses if asked to and restores the volume, in this order, and on every
\* path the master volume afterwards is the one before the restore.
C24_RestoreKeepsVolume ==
    pipe = "NULL" =>
        \A saved \in SavedStates : \A resume_paused \in BOOLEAN :
        \A vol \in Volumes :
            LET r == QRestorePlayerState([W EXCEPT !.volume = vol], saved,
                                         resume_paused)
            IN  /\ IsPrefix(r.calls, RestoreCalls(saved, resume_paused))
                /\ saved.state \in {"playing", "paused"} => Len(r.calls) >= 2
                /\ PlayerCurrent(r) # None
                       => r.calls = RestoreCalls(saved, resume_paused)
                /\ r.volume = vol

\* C25: the drained handler never acts together with a play() of the main
\* loop: no slot is filled while the stream it holds is still linked (no
\* stream is left in the adder that no slot holds), and at most two streams
\* are attached.
C25_DrainedIsSerialised ==
    engine = "unified" => (orphans = 0 /\ Attached(streams, orphans) <= 2)

\* The _start_crossfade sources the main loop holds: the timer in
\* self.timer_id and the sources no attribute of the player refers to.
PendingCrossfades == xfade_sources + (IF timer_id = "xfade" THEN 1 ELSE 0)

\* C26: at most one crossfade-start timer is pending at any time: whoever
\* arms one has cancelled the one armed before.
C26_OneCrossfadeTimer ==
    engine = "unified" => PendingCrossfades <= 1

\* The engine is Stopped and a _start_crossfade source is still pending: the
\* track the source was armed for is no longer the current one.
StaleCrossfade == engine = "unified" /\ pipe = "NULL" /\ xfade_sources > 0

\* C27: a crossfade-start timer that fires after its track stopped being the
\* current one does nothing: the queue is not advanced, nothing starts to
\* play, no timer is armed and nothing is raised.
C27_StaleCrossfadeIsNoOp ==
    StaleCrossfade =>
        LET r == UStartCrossfade([W EXCEPT !.xfade_sources = @ - 1])
        IN  /\ ~r.raised
            /\ r.ordered_tracks = ordered_tracks
            /\ r.current_pos = current_pos
            /\ r.pl_pos = pl_pos
            /\ r.pipe = "NULL"
            /\ UCurrent(r) = None
            /\ r.timer_id = timer_id
            /\ r.xfade_sources = xfade_sources - 1
            /\ r.ev = <<>>

\* C28: one request to set a stream Playing keeps at most one
\* _settle_state_sub source on the main loop, however often the source finds
\* the stream Paused, so that stream_settled is logged once for the request.
C28_OneSettleCallback == settle_subs <= 1

\* The main loop is inside a seek that found the settle flag set.
LoopSeekDelayed == main_pc = "seek" /\ seek_pc = "add_callback"

\* C29: a seek made on the main loop while the settle flag of the current
\* stream is set does not block the loop for ever: the settle callback still
\* runs, stream_settled is delivered, and the seek is sent and returns.
C29_LoopSeekTerminates == LoopSeekDelayed ~> (main_pc = "loop")

\* The stream in slot s is the outgoing one of a user's fade: it plays next
\* to the current stream, the user fade being on and crossfading off.
OutgoingFades(s) ==
    /\ engine = "unified" /\ user_fade_enabled /\ ~crossfading
    /\ pipe = "PLAYING"
    /\ s # current_stream
    /\ streams[s].live /\ streams[s].linked /\ streams[s].track # None
    /\ UCurrent(W) # None

\* C30: "drained" from the outgoing stream of a user's fade detaches at most
\* that stream: the queue is not advanced, no track is played and the stream
\* and track that are current stay current.
C30_OutgoingDrainedOnlyDetaches ==
    \A s \in Slots :
        OutgoingFades(s) =>
            LET r == UOnDrained(W, s)
            IN  /\ r.ordered_tracks = ordered_tracks
                /\ r.current_pos = current_pos
                /\ r.pl_pos = pl_pos
                /\ r.played \in {NoCall, None}
                /\ r.current_stream = current_stream
                /\ UCurrent(r) = UCurrent(W)
                /\ r.pipe = "PLAYING"

\* The fades are over: no fade timer is armed and the one stream that is
\* attached is the current one, at volume 1.0 up to the rounding of the
\* hundred additions that took it there.
FadesSettled ==
    /\ fades = <<>>
    /\ Attached(streams, orphans) = 1
    /\ streams[current_stream].live /\ streams[current_stream].linked
    /\ Hundredths(streams[current_stream].vol) = 100

\* C31: without a stop(), once the engine plays every fade completes: each
\* outgoing stream is detached, the fade timers cease and exactly one stream
\* stays attached, at volume 1.
C31_FadesComplete == (pipe = "PLAYING") ~> FadesSettled

\* The events evs, logged while open is the track whose playback_start has
\* had no playback_end yet (None: no such track), keep the two in turn: a
\* playback_start only with no track open, a playback_end only for the open
\* track.
RECURSIVE Alternates(_, _)
Alternates(open, evs) ==
    IF evs = <<>> THEN TRUE
    ELSE LET e == Head(evs)
         IN  IF e.name = "playback_start"
             THEN open = None /\ Alternates(e.arg, Tail(evs))
             ELSE IF e.name = "playback_end"
             THEN open # None /\ e.arg = open /\ Alternates(None, Tail(evs))
             ELSE Alternates(open, Tail(evs))

\* The last step was a play() that started a track: its playback_start is
\* the last event logged, and the track it carries is the current one.
JustStarted == last.op = "play" /\ last.ret = "True"

\* C32: playback_start and playback_end alternate: a play() that replaces a
\* track that has just been started logs playback_end for that track before
\* it logs playback_start for the new one.
C32_StartAndEndAlternate ==
    JustStarted =>
        \A t \in Tracks :
            Alternates(PlayerCurrent(W), PlayerPlay(W, t).ev)

\* ------------------------------------------------------------ specifications
\* The state after PlayQueue.__init__ and the engine's __init__.
InitCommon ==
    /\ ordered_tracks = <<>>
    /\ play_pc = NoPlay
    /\ stop_track = NoStopTrack
    /\ current_playing = FALSE
    /\ current_pos = -1
    /\ current_playlist = None
    /\ pl_pos = -1
    /\ pl_playing = FALSE
    /\ pipe = "NULL"
    /\ current = None
    /\ eos = FALSE
    /\ atf = FALSE
    /\ streams = [s \in Slots |-> NoStream]
    /\ current_stream = 1
    /\ orphans = 0
    /\ timer_id = "none"
    /\ xfade_sources = 0
    /\ fades = <<>>
    /\ idle_pipe = FALSE
    /\ now = 0
    /\ playtime_stamp = NoStamp
    /\ playtime = [t \in GoodTracks |-> 0]
    /\ playing_time = [t \in GoodTracks |-> 0]
    /\ marker_stops = 0
    /\ last = NoLast
    /\ play_pc = NoPlay
    /\ settle_flag = 1
    /\ seek_event = FALSE
    /\ gst_state = "NULL"
    /\ set_state_idle = TRUE
    /\ settle_subs = 0
    /\ main_pc = "loop"
    /\ seek_callback = FALSE
    /\ seek_pc = "idle"
    /\ seek_value = 0
    /\ seek_calls = 0
    /\ seeks = <<>>

InitPlaybin ==
    /\ engine \in {"gst", "gapless"}
    /\ user_fade_enabled = FALSE
    /\ crossfading = FALSE
    /\ InitCommon

InitUnified ==
    /\ engine = "unified"
    /\ user_fade_enabled = FALSE
    /\ crossfading = FALSE
    /\ InitCommon

InitCrossfade ==
    /\ engine = "unified"
    /\ user_fade_enabled \in BOOLEAN
    /\ crossfading \in BOOLEAN
    /\ InitCommon

NextPlaybin ==
    \/ Enqueue \/ SetStopTrack \/ SetCurrentPlaylist
    \/ QueueNext \/ QueuePrev \/ Play \/ Stop \/ Pause \/ Unpause
    \/ PostEos \/ OnMessageEos \/ AboutToFinish \/ OnFinish

\* The unified engine with both fade settings off: no fade and no crossfade
\* timer is ever armed.
NextUnified ==
    \/ Enqueue \/ SetStopTrack
    \/ QueueNext \/ Play \/ Stop \/ Pause \/ Unpause \/ Seek
    \/ Drained \/ IdleSetState

\* The instants of a fade-in of the current stream at which something other
\* than the next fade tick happens: the volume, in hundredths, that the stream
\* has when its fade-in timer is the next to tick.  Once the fade-in is over
\* anything happens at any time.
FadeInstants == {0, 50}

FadingIn == \E i \in 1..Len(fades) :
                fades[i].slot = current_stream /\ fades[i].dir = 1

BetweenTicks ==
    IF ~FadingIn THEN TRUE
    ELSE /\ Head(fades).slot = current_stream
         /\ Head(fades).dir = 1
         /\ Hundredths(streams[current_stream].vol) \in FadeInstants

\* The tracks played and queued while fades run: a good one and a missing one.
FadeTracks == {"a", "x"}

\* The unified engine with any fade settings, its fade timers ticking in the
\* order they were armed.
NextCrossfade ==
    \/ FadeTick
    \/ BetweenTicks /\ EnqueueOf(FadeTracks, 1)
    \/ BetweenTicks /\ PlayOf(FadeTracks)
    \/ BetweenTicks /\ Stop
    \/ BetweenTicks /\ Seek
    \/ BetweenTicks /\ Drained
    \/ BetweenTicks /\ CrossfadeSource
    \/ BetweenTicks /\ CrossfadeTimer
    \/ BetweenTicks /\ StopTimer
    \/ IdleSetState

\* One listening session of the unified engine: the user queues playable
\* tracks and starts playback while the engine is Stopped, may seek, and then
\* lets the tracks play out; the main loop runs every source that is armed.

NextPlaythrough ==
    \/ pipe = "NULL" /\ EnqueueOf(PlayableTracks, 1)
    \/ pipe = "NULL" /\ PlayOf(PlayableTracks)
    \/ BetweenTicks /\ Seek
    \/ BetweenTicks /\ Drained
    \/ FadeTick
    \/ BetweenTicks /\ CrossfadeSource
    \/ BetweenTicks /\ CrossfadeTimer
    \/ BetweenTicks /\ StopTimer
    \/ IdleSetState

\* A playbin engine, one track and the clock.
NextPlaytime ==
    \/ PlayOf(PlayableTracks) \/ Stop \/ Pause \/ Unpause \/ Tick

\* One stream of the unified engine settling while a thread seeks on it.
NextSeek ==
    \/ SetStateBegin \/ SetStateEnd \/ Preroll \/ SettleStateSub
    \/ StreamSettled
    \/ SeekCall \/ SeekCheck \/ SeekAddCallback \/ SeekClear \/ SeekWait
    \/ SeekSend

\* The unified engine without crossfading, the user fade on or off, with
\* playable tracks only: the main loop plays, stops, queues and runs its idle
\* and timer sources one at a time, and the decoder threads drain at any
\* moment.
InitDrained ==
    /\ engine = "unified"
    /\ user_fade_enabled \in BOOLEAN
    /\ crossfading = FALSE
    /\ InitCommon

NextDrained ==
    \/ play_pc = NoPlay /\ BetweenTicks /\ EnqueueOf(PlayableTracks, 1)
    \/ BetweenTicks /\ PlayBegin
    \/ PlayEnd
    \/ play_pc = NoPlay /\ BetweenTicks /\ Stop
    \/ play_pc = NoPlay /\ IdleSetState
    \/ play_pc = NoPlay /\ FadeTick
    \/ BetweenTicks /\ Drained

SpecPlaybin == InitPlaybin /\ [][NextPlaybin]_vars
SpecDrained == InitDrained /\ [][NextDrained]_vars
SpecPlaytime == InitPlaybin /\ [][NextPlaytime]_vars

SpecUnified == InitUnified /\ [][NextUnified]_vars
SpecCrossfade == InitCrossfade /\ [][NextCrossfade]_vars

\* The main loop runs its idle sources, the backend reaches the state it was
\* asked for, and the seeking thread takes every step it is not blocked in;
\* nobody has to call seek.
SpecSeek ==
    /\ InitUnified
    /\ [][NextSeek]_vars
    /\ WF_vars(SetStateBegin) /\ WF_vars(SetStateEnd) /\ WF_vars(Preroll)
    /\ WF_vars(SettleStateSub) /\ WF_vars(StreamSettled)
    /\ WF_vars(SeekCheck) /\ WF_vars(SeekAddCallback) /\ WF_vars(SeekClear)
    /\ WF_vars(SeekWait) /\ WF_vars(SeekSend)

\* One stream of the unified engine settling while handlers of the main loop
\* and a second thread seek on it, one seek at a time.  The loop thread goes
\* on with whatever it is in, and the backend goes on with its change of
\* state.
NextLoopSeek ==
    \/ SetStateBegin \/ SetStateEnd \/ Preroll \/ SettleStateSub
    \/ StreamSettled
    \/ main_pc # "seek" /\ SeekCall
    \/ LoopSeekCall
    \/ SeekCheck \/ SeekAddCallback \/ SeekClear \/ SeekWait \/ SeekSend
    \/ LoopSeekReturn

SpecLoopSeek ==
    /\ InitUnified
    /\ [][NextLoopSeek]_vars
    /\ WF_vars(SetStateBegin) /\ WF_vars(SetStateEnd) /\ WF_vars(Preroll)
    /\ WF_vars(SettleStateSub) /\ WF_vars(StreamSettled)
    /\ WF_vars(SeekCheck) /\ WF_vars(SeekAddCallback) /\ WF_vars(SeekClear)
    /\ WF_vars(SeekWait) /\ WF_vars(SeekSend) /\ WF_vars(LoopSeekReturn)

\* The unified engine with the user fade on and crossfading off: the user
\* queues playable tracks, starts playback and skips through the queue, also
\* while a fade runs, and never stops.  gobject fires the fade timers and the
\* idle source as long as they are armed.
InitFades ==
    /\ engine = "unified"
    /\ user_fade_enabled = TRUE
    /\ crossfading = FALSE
    /\ InitCommon

\* The user skips to the next track of the queue.
QueueSkip ==
    /\ pipe = "PLAYING"
    /\ ordered_tracks # <<>>
    /\ Commit(QNext(W, TRUE, None), "next", 0)

NextFades ==
    \/ pipe = "NULL" /\ EnqueueOf(PlayableTracks, MaxQueue)
    \/ pipe = "NULL" /\ PlayOf(PlayableTracks)
    \/ BetweenTicks /\ QueueSkip
    \/ FadeTick
    \/ IdleSetState

SpecFades ==
    /\ InitFades
    /\ [][NextFades]_vars
    /\ WF_vars(FadeTick)
    /\ WF_vars(IdleSetState)

\* gobject dispatches an idle source and a timeout that is due as long as it
\* stays armed; what the user and the decoder do is not forced.
SpecPlaythrough ==
    /\ InitCrossfade
    /\ [][NextPlaythrough]_vars
    /\ WF_vars(IdleSetState)
    /\ WF_vars(FadeTick)
    /\ WF_vars(BetweenTicks /\ CrossfadeSource)
    /\ WF_vars(BetweenTicks /\ CrossfadeTimer)
    /\ WF_vars(BetweenTicks /\ StopTimer)

====
